SPECIFICATION Spec
CONSTANTS
  Workers = {w1, w2}
  SigThread = sig
  NoThread = nobody
  Pids = {1, 2, 3, 4, 5}
  NoPid = nopid
  maxConcurrentJobs = 2
  MaxJobs = 3
  MaxClones = 1
  MaxStarts = 2
  ReplMayExit = TRUE
SYMMETRY MCSymmetry
INVARIANTS
  TypeOK
  ConcurrencyBound
  WorkConserving
  CompletionRecognised
  AnnouncedWhenReaped
  NoJobVanishes
PROPERTIES
  StartOrder
  ImplementsJobQueue
CHECK_DEADLOCK FALSE
