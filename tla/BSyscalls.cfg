SPECIFICATION FairSpec
CONSTANTS
  Jobs = {j1, j2, j3}
  Killable = {j1, j2}
  Batches = {b1}
  Workers = {w1, w2, w3}
  Single = FALSE
  MaxThreads = 2
  MaxKills = 1
  MaxFaults = 1
  None = None
INVARIANTS TypeOK CallOnce KillSound ReapedOnce CoveredAtFirst
PROPERTY Answered
CHECK_DEADLOCK FALSE
