SPECIFICATION HistSpec
CONSTANTS
  min_geer_pwm = 1
  Surface = 2
  StartGear = 3
  max_geer_pwm = 3
  GearMod = 16
  Second = 2
  TickMod = 6
  Period = 1
  Late = 1
  max_draw_amount = 50
  RemoteTimeout = 1
  GearTurns = 2
  Bottles <- MCBottles
  KeyFrames <- MCKeyFrames
  MaxInputs = 3
INVARIANTS TypeOK GearInRange ProgressReport UndisturbedDrawTime UndisturbedAtDepth AloneDrawnInFull
PROPERTIES LastCommandReported PumpStops
