\* One user at a time posts jobs; stop, delete and manual moves come from anywhere.
\* The in-memory adapter keeps one job; started threads keep being scheduled.
SPECIFICATION FairSpec
CONSTANTS
  Jobs = {j1, j2}
  NoJob = NoJob
  Clients = {c1}
  Stoppers = {s1}
  DryJobs = {j2}
  PathLen = 2
  MaxJobs = 1
  ForeignKeys = FALSE
  WritesMayFail = FALSE
  MaxCrashes = 0
INVARIANTS
  TypeOK
  DriverHoldsSlot
  ProgressIsMeasured
  RunningIsOwned
  OneStopOneJob
PROPERTIES
  SlotIsReturned
