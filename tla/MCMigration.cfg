SPECIFICATION Spec
CONSTANTS
  Threads = {t1, t2}
  Procs = {p1, p2, p3}
  Affine = {p3}
  Starter = t1
  Home <- HomeFirst
  Wakers <- WakersFirst
  Batches = {b1, b2, b3, b4}
  WindowSizes = {1, 2}
  KeepFree = 1
  None = None
SYMMETRY Alike
INVARIANTS TypeOK ScheduledOnce BatchesKept Findable AffineStays
