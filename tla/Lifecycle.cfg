SPECIFICATION FairSpec
CONSTANTS
  cpu1 = cpu1
  Cpus = {cpu1}
  Ftrace = TRUE
  Runtime = TRUE
  Faults = {"create", "config", "trace", "open", "clock"}
  DataFlows = TRUE
INVARIANTS TypeOK MutexInv CleanupAlone
PROPERTIES ToldThreadsEnd
CHECK_DEADLOCK FALSE
