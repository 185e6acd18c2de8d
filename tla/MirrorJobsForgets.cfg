SPECIFICATION Spec
CONSTANTS
  r1 = r1
  r2 = r2
  j1 = j1
  j2 = j2
  j3 = j3
  None = None
  Maintainer = Maintainer
  Repos <- OneRepo
  JobIds <- ThreeJobs
  Workers = 1
  Queue = 1
  MaxUpstream <- OnePush
SYMMETRY ThreeJobsSymmetry
INVARIANT NothingForgotten
CHECK_DEADLOCK FALSE
