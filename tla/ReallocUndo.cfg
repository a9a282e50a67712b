SPECIFICATION Spec
CONSTANTS
  PDefault = 40
  RRSlice = 10
  Pids = {1, 2, 3}
  Cpus = {0, 1}
  k1 = k1
  Containers = {k1}
  NoCont = NoCont
  ContOf <- MCContOf
  Policy <- MCPolicy
  Affinity <- MCAffinity
  Config <- MCConfig
  Estimates <- MCEstimates
  Mode = 4
  Cpuset <- MCCpuset
  Mortal = {1, 3}
PROPERTIES UndoRestores
