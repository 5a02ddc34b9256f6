SPECIFICATION Spec
CONSTANTS
  Threads = {t1, t2}
  Sleepers = {s1}
  Alts = {a1}
  Guards = 2
  Nodes = {n1, n2}
  Period = 8
  MaxDelay = 2
  Slack = 1
  None = None
INVARIANTS TypeOK Ordered NodeReuse TriggeredOnce GuardSelected
SYMMETRY Alike
VIEW Canonical
