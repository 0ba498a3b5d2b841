SPECIFICATION Spec
CONSTANTS
  Ports <- CompassPort
  DefaultBufsz = 2
  Bufsz = 4
  SemMod = 3
  MaxBytes = 7
INVARIANT NoAssertFailure
CHECK_DEADLOCK FALSE
