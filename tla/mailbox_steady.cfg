SPECIFICATION LiveSpec
CONSTANTS
  ann = ann
  bob = bob
  web = web
  Identities = {ann, bob, web}
  Keys = {}
  Contents = {c}
  Permitted <- ProxiedPair
  MaxMsgs = 2
  MaxSec = 1
  MaxBatch = 1
  MaxEvents = 1
  Faults = {"halfopen"}
INVARIANTS AuditIsExact ClockIsLastSend
PROPERTY QueueDrains
CHECK_DEADLOCK FALSE
