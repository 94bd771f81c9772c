SPECIFICATION Spec
CONSTANTS
  Clients = {c1, c2}
  NoOne = noOne
  MaxCreated = 2
  PathLen = 0
  MaxJobs = 1
  MaxFaults = 0
SYMMETRY Symmetry
INVARIANTS KeepsTheYoung
CHECK_DEADLOCK FALSE
