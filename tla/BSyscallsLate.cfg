SPECIFICATION Spec
CONSTANTS
  Jobs = {j1, j2, j3}
  Killable = {j1, j2}
  Batches = {b1, b2}
  Workers = {w1, w2, w3}
  Single = FALSE
  MaxThreads = 2
  MaxKills = 1
  MaxFaults = 0
  None = None
INVARIANT ResumedOnce
CHECK_DEADLOCK FALSE
