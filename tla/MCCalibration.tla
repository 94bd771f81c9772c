--------------------------- MODULE MCCalibration ---------------------------
\* Calibration with three contents of intrinsics files: the old and the new one of
\* the same path and resolution (the focus was changed), and one of another path.
EXTENDS Calibration

CONSTANTS old, new, other

MCCameras == {old, new, other}
MCProfile == [c \in MCCameras |-> IF c = other THEN "elsewhere" ELSE "default"]
=============================================================================
