SPECIFICATION Spec
CONSTANTS
  a1 = a1
  a2 = a2
  stable = stable
  daily = daily
  None = None
  Agents <- TwoAgents
  Ids <- OneId
  Offers <- ThreeOffered
  Calls <- NoCalls
  Faults = {}
INVARIANTS PointersResolve
CHECK_DEADLOCK FALSE
