SPECIFICATION Spec
CONSTANTS
  d = d
  f = f
  Idle = Idle
  Running = {}
  Cpus = {0}
  Tasks = {d, f}
  Cpu <- MCCpu
  Deadline = {d}
  Period <- MCPeriod
  CdfPeriod <- MCCdf
  MaxTime = 6
  MaxBuffer = 2
  MaxLost = 2
INVARIANTS Measured Ahead
CHECK_DEADLOCK FALSE
