SPECIFICATION FairSpec
CONSTANTS
  cpu1 = cpu1
  Cpus = {}
  Ftrace = FALSE
  Runtime = TRUE
  Faults = {"clock"}
  DataFlows = FALSE
PROPERTIES StopsOnce
CHECK_DEADLOCK FALSE
