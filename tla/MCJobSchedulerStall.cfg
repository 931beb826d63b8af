SPECIFICATION FairSpec
CONSTANTS
  Workers = {w1, w2}
  SigThread = sig
  NoThread = nobody
  Pids = {1, 2, 3, 4, 5, 6}
  NoPid = nopid
  maxConcurrentJobs = 2
  MaxJobs = 4
  MaxClones = 0
  MaxStarts = 1
  ReplMayExit = TRUE
PROPERTY EveryJobStarts
CHECK_DEADLOCK FALSE
