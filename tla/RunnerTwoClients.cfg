\* Two users post jobs at the same time.
SPECIFICATION Spec
CONSTANTS
  Jobs = {j1, j2}
  NoJob = NoJob
  Clients = {c1, c2}
  Stoppers = {}
  DryJobs = {}
  PathLen = 1
  MaxJobs = 0
  ForeignKeys = TRUE
  WritesMayFail = FALSE
  MaxCrashes = 0
SYMMETRY Symmetry
INVARIANTS
  OneDriver
