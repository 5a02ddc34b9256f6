SPECIFICATION Spec
CONSTANTS
  NThreads = 2
  Procs = {p1, p2}
  Workers = {w1}
  Affinities = {{}}
  PipeCap = 2
SYMMETRY Perms
INVARIANT ShutdownNotStalled
CHECK_DEADLOCK FALSE
