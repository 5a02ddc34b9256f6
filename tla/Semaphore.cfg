SPECIFICATION FairSpec
CONSTANTS
  NotProcess = NotProcess
  Procs   = {p1, p2, p3}
  Threads = {t1, t2}
INVARIANTS TypeOK MutualExclusion NothingLost
PROPERTIES IsFifoMutex WaiterServed
