SPECIFICATION FairSpec
CONSTANTS
  N = 4
  Containers = {c1, c2}
  Unset = Unset
  Inputs <- MCInputs
  Files <- MCFiles
  NoFile = NoFile
  Ranges = {{1, 2, 3}, {1, 2}, {3}, {0, 1, 2, 3}, {}}
  Masks = {{"SMTOFF"}, {"AFTY", "CGRPRT"}}
  Priorities = {0, 20, 100}
  Intervals = {500}
  Slices = {10}
  Clocks = {4}
  Known = {c1}
  MaxOptions = 2
  MaxFaults = 1
INVARIANTS TypeOK PolicyConsistent Isolated IrqsAway Partition
PROPERTIES Decides
CHECK_DEADLOCK FALSE
