SPECIFICATION FairSpec
CONSTANTS
  Pids = {1, 2, 3, 4}
  c1 = c1
  c2 = c2
  Containers = {c1, c2}
  NoCont = NoCont
  ContOf <- MCContOf
  TrackModes = {FALSE, TRUE}
  Detection = "cgroup"
  GrowingPids = TRUE
  DirMayVanish = TRUE
  Partitions = {"exclusive", "useall", "dry"}
  WritesMayFail = TRUE
INVARIANTS GroupInv SiblingsMarked
