SPECIFICATION FairSpec
CONSTANTS
  NThreads = 2
  Procs = {p1, p2, p3}
  Initial = {p1, p2}
  None = None
INVARIANTS NoEarlyPass CompletionSound NoneForgotten
PROPERTIES IsBarrier MadeReady
CHECK_DEADLOCK FALSE
