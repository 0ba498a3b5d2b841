SPECIFICATION Spec
CONSTANTS
  Ports <- AllPorts
  DefaultBufsz = 2
  Bufsz = 4
  SemMod = 3
  MaxBytes = 7
INVARIANTS TypeOK IndexInBuffer NoLostWakeup
PROPERTIES AllRead ImplementsQueue
CHECK_DEADLOCK FALSE
