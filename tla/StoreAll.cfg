SPECIFICATION Spec
CONSTANTS
  Clients = {c1, c2}
  NoOne = noOne
  MaxCreated = 2
  PathLen = 1
  MaxJobs = 1
  MaxFaults = 2
SYMMETRY Symmetry
INVARIANTS TypeOK JobsAreWhole ReturnedIsDurable NoOrphans RetentionKeepsNewest ProgressIsBacked
CHECK_DEADLOCK FALSE
