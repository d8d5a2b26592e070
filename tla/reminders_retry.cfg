SPECIFICATION RemindersLiveSpec
CONSTANTS
  r1 = r1
  r2 = r2
  agent = agent
  k = k
  Ids = {r1}
  Requests <- OnlyInterval
  MaxScan <- Limits
  MaxSlot = 1
  Faults = {"timeout"}
PROPERTY DueMovesOn
CHECK_DEADLOCK FALSE
