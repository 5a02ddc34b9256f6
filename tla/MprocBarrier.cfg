SPECIFICATION Spec
CONSTANTS
  Procs = {p1, p2, p3}
  Initial = {p1, p2, p3}
  Resigners = {}
  None = None
INVARIANT ScheduledOnce
