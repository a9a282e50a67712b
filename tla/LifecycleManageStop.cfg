SPECIFICATION FairSpec
CONSTANTS
  cpu1 = cpu1
  Cpus = {}
  Ftrace = FALSE
  Runtime = TRUE
  Faults = {}
  DataFlows = FALSE
PROPERTIES ManageObeys
CHECK_DEADLOCK FALSE
