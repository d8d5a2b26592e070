SPECIFICATION RemindersSpec
CONSTANTS
  r1 = r1
  r2 = r2
  agent = agent
  k = k
  Ids = {r1, r2}
  Requests <- OnlyShared
  MaxScan <- Limits
  MaxSlot = 1
  Faults = {"refuse"}
INVARIANT FiringIsAwaited
CHECK_DEADLOCK FALSE
