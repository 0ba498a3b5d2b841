SPECIFICATION Spec
CONSTANTS
  ObstacleLimit = 1
  RemoteLimit = 2
  ServerLimit = 1
  Period = 1
  Late = 1
  Ids = {1, 10}
  Modes = {3, 4}
INVARIANT ObstaclesCleared
