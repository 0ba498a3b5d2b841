SPECIFICATION ThrustSpec
CONSTANTS
  Lo = 12
  Hi = 20
  Neutral = 16
  Requests = {}
  Half = 8
  Fine = 2
  Distances <- MCDistances
  NearLimit = 5
  NearPush <- MCNearPush
  FarPush <- MCFarPush
  Sway <- MCSway
  UintMod = 1000
  Notch = 2
  StickMax = 8
  StickStep = 1
  Centre = 4
  DeadZone = 2
  StartSpeed = 1
  Headings = {1, 5, 13}
  Sticks = {3, 8}
  Speeds = {1, 4}
  Directions = {0, 225, 360}
  Modes = {3, 4}
  Places = {1, 2}
  Unit = 1000
  Cos <- MCCos
  Sin <- MCSin
  Angles <- MCAngles
  Course <- MCCourse
  MaxInputs = 3
INVARIANTS ThrustTypeOK OutputInRange OutputMatchesCurrent  CruiseWithinSpeed TurnsTheShortWay
PROPERTIES Settles ComesToRest
