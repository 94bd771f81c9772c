\* One or two batteries, two densities, one recalibration at any moment.
SPECIFICATION Spec
CONSTANTS
  Pixels <- MCPixels
  Batteries <- MCBatteries
  MaxBatteries = 2
  Steps = {20, 30}
  Mappings <- MCMappings
  Board <- MCBoard
  MaxPoints = 16
  Ring <- MCRing
  MaxRecalibrations = 1
INVARIANTS
  TypeOK
  PerimeterFromNearest
  EveryCornerMeasured
  PointsSpreadEvenly
  LimitIsExact
  AcceptedIsReachable
