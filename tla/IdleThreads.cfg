SPECIFICATION FairSpec
CONSTANTS
  NThreads = 2
  Procs = {p1, p2}
  Workers = {}
  Affinities = {{}, {0}, {1}}
  PipeCap = 2
INVARIANTS TypeOK EndSound
PROPERTIES DeadlockReported MailRuns
