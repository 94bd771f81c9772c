\* The outcome is published between the snapshot and the subscription.
SPECIFICATION StreamsFairSpec
CONSTANTS
  Jobs = {j1}
  NoJob = NoJob
  Clients = {c1}
  Stoppers = {}
  DryJobs = {}
  PathLen = 1
  MaxJobs = 0
  ForeignKeys = TRUE
  WritesMayFail = FALSE
  MaxCrashes = 0
  Streams = {e1}
PROPERTIES
  StreamEnds
