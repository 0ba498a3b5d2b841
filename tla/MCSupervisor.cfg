SPECIFICATION Spec
CONSTANTS
  ObstacleLimit = 0
  RemoteLimit = 1
  ServerLimit = 1
  Period = 1
  Late = 1
  Ids = {1, 10}
  Modes = {3, 4}
INVARIANTS TypeOK DeadMan ObstacleForgotten ConnectionShownFresh
