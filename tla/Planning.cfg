SPECIFICATION Spec
CONSTANTS
  PDefault = 40
  RRSlice = 5
  Cpus = {0, 1}
  Shared = Shared
  Modes = {0, 2}
  Int32Max = 100
  Inputs <- MCInputs
INVARIANTS TypeOK NotOverbooked Accounted Nested
CHECK_DEADLOCK FALSE
