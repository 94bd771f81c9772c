\* A stop call meets the end of the previous job.
SPECIFICATION Spec
CONSTANTS
  Jobs = {j1, j2}
  NoJob = NoJob
  Clients = {c1}
  Stoppers = {s1}
  DryJobs = {}
  PathLen = 2
  MaxJobs = 0
  ForeignKeys = TRUE
  WritesMayFail = FALSE
  MaxCrashes = 0
SYMMETRY Symmetry
INVARIANTS
  StopIsHonoured
