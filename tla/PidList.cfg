SPECIFICATION FairSpec
CONSTANTS
  Pids = {1, 2, 3}
  c1 = c1
  c2 = c2
  Containers = {c1, c2}
  NoCont = NoCont
  ContOf <- MCContOf
  TrackModes = {FALSE, TRUE}
  Detection = "cgroup"
  GrowingPids = FALSE
  DirMayVanish = FALSE
  Partitions = {"exclusive"}
  WritesMayFail = FALSE
INVARIANTS TypeOK SortedInv HeadInv
PROPERTIES ImplementsRegistry Tracked
