SPECIFICATION LinkFairSpec
CONSTANTS
  MaxEvents = 3
  None = None
INVARIANTS LinkTypeOK LockInv OrderInv
PROPERTIES NoOverwrite ImplementsQueue JoinReturns
CHECK_DEADLOCK FALSE
