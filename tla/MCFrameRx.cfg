SPECIFICATION Spec
CONSTANTS
  Receivers <- AllReceivers
  MaxFrames = 5
  MaxNoise = 4
INVARIANTS TypeOK TerminatorInBuffer Recovers NeverReplayed
CHECK_DEADLOCK FALSE
