SPECIFICATION Spec
CONSTANTS
  c1 = c1
  c2 = c2
  p1 = p1
  p2 = p2
  None = None
  Commits <- TwoCommits
  Readers <- OneReader
  Keep = 1
  MaxTime = 3
  Faults = {"maintain"}
  Promises = {"use"}
INVARIANT PromisesKept
CHECK_DEADLOCK FALSE
