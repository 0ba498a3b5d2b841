SPECIFICATION HistSpec
CONSTANTS
  min_geer_pwm = 1
  Surface = 2
  StartGear = 3
  max_geer_pwm = 3
  GearMod = 16
  Second = 2
  TickMod = 8
  Period = 1
  Late = 1
  max_draw_amount = 50
  RemoteTimeout = 2
  GearTurns = 2
  Bottles = {}
  KeyFrames <- MCKeyFrames
  MaxInputs = 4
INVARIANT RemoteDrawLimit
