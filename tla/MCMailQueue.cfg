SPECIFICATION Spec
CONSTANTS
  Procs = {p1, p2, p3}
  Senders = {s1, s2, s3}
  None = None
  PipeCap = 2
SYMMETRY Perms
INVARIANTS QueueSound AsleepCovered
