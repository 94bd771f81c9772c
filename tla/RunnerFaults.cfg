\* Storage writes may raise and the process may die once and be restarted.
SPECIFICATION Spec
CONSTANTS
  Jobs = {j1, j2}
  NoJob = NoJob
  Clients = {c1}
  Stoppers = {}
  DryJobs = {j2}
  PathLen = 2
  MaxJobs = 1
  ForeignKeys = TRUE
  WritesMayFail = TRUE
  MaxCrashes = 1
SYMMETRY Symmetry
INVARIANTS
  CompletedIsMeasured
PROPERTIES
  LifecycleSpec
