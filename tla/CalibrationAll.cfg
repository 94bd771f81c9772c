SPECIFICATION Spec
CONSTANTS
  Requests = {r1, r2}
  TotalSteps = 4
  old = old
  new = new
  other = other
  Cameras <- MCCameras
  Profile <- MCProfile
  NoCamera = noCamera
  MaxSessions = 3
  MaxRestarts = 1
INVARIANTS TypeOK FullSessionIsEnding MappingMatchesProfile PointsMatchTargets RestartKeepsMapping
CHECK_DEADLOCK FALSE
