SPECIFICATION Spec
CONSTANTS
  c1 = c1
  c2 = c2
  p1 = p1
  p2 = p2
  None = None
  Commits <- TwoCommits
  Readers <- OneReader
  Keep = 0
  MaxTime = 2
  Faults = {"crash", "restart", "query", "refresh"}
  Promises = {"confirmation", "use"}
SYMMETRY Symmetry
INVARIANTS TypeOK ServedPinsStay PromisesKept DiskIsBacked
CHECK_DEADLOCK FALSE
