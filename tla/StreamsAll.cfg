\* One stream watches a job that may be stopped or fail; the process may restart once.
SPECIFICATION StreamsFairSpec
CONSTANTS
  Jobs = {j1}
  NoJob = NoJob
  Clients = {c1}
  Stoppers = {s1}
  DryJobs = {}
  PathLen = 1
  MaxJobs = 0
  ForeignKeys = TRUE
  WritesMayFail = FALSE
  MaxCrashes = 1
  Streams = {e1}
INVARIANTS
  StreamsTypeOK
  ProgressNeverGoesBack
  OutcomeIsStored
  ClosedIsUnsubscribed
PROPERTIES
  LiveStreamEnds
