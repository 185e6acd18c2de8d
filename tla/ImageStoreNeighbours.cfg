SPECIFICATION Spec
CONSTANTS
  a1 = a1
  a2 = a2
  stable = stable
  daily = daily
  None = None
  Agents <- OneAgent
  Ids <- TwoIds
  Offers <- TwoEach
  Calls <- OnePrune
  Faults = {}
INVARIANTS TypeOK NeighboursUnharmed PreviousIsKept
CHECK_DEADLOCK FALSE
