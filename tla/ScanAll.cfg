\* Prompt and late devices, the real and the mock adapter; the websocket may close.
SPECIFICATION FairSpec
CONSTANTS
  PathLen = 3
  LinkMayDrop = TRUE
INVARIANTS
  ScanTypeOK
  OwnResultWhenPrompt
  ProcessedIsRecorded
PROPERTIES
  ScansEnd
