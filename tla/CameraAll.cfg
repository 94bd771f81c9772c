SPECIFICATION Spec
CONSTANTS
  Users = {u1, u2}
  Pingers = {p1}
  MaxStarts = 2
  MaxUses = 2
INVARIANTS TypeOK KnownThread FrameIsLive NoErrorOfItsOwn StreamsCounted
PROPERTIES CaptureEnds
CHECK_DEADLOCK FALSE
