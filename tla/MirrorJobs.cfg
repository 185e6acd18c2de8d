SPECIFICATION Spec
CONSTANTS
  r1 = r1
  r2 = r2
  j1 = j1
  j2 = j2
  j3 = j3
  None = None
  Maintainer = Maintainer
  Repos <- TwoRepos
  JobIds <- ThreeJobs
  Workers = 1
  Queue = 1
  MaxUpstream <- OneOfTwo
SYMMETRY ThreeJobsSymmetry
CONSTRAINT PushMeetsOne
INVARIANTS TypeOK OpenJobsHaveSlots AnswersAreFresh PopulationRunsAlone OneMutatorPerRepo
PROPERTY ImplementsAnswers
CHECK_DEADLOCK FALSE
