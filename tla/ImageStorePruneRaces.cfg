SPECIFICATION Spec
CONSTANTS
  a1 = a1
  a2 = a2
  stable = stable
  daily = daily
  None = None
  Agents <- OneAgent
  Ids <- OneId
  Offers <- ThreeOffered
  Calls <- OnePrune
  Faults = {}
INVARIANTS PointersResolve
CHECK_DEADLOCK FALSE
