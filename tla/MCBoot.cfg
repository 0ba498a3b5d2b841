SPECIFICATION Spec
CONSTANTS
  Threads = {"idle", "main", "raspberry", "manager", "energy"}
  Idle = "idle"
  Main = "main"
  Receiver = "raspberry"
  Manager = "manager"
  Energy = "energy"
  Sems = {"raspberry_sem"}
  Rx = "raspberry_sem"
  Prio <- MCPrio
  Slice <- MCSlice
  Delay <- MCDelay
  Delays = {2, 3}
  TickMod = 10
  MaxBusy = 2
  RxGap = 3
  RxMax = 1
  DogTicks = 8
INVARIANTS TypeOK NoThreadLost HighestRuns NoWaiterPassed OnTime DogFoundBeforeFed NeverReset
PROPERTIES NeverEarly StartUpCompletes
