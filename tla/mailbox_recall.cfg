SPECIFICATION Spec
CONSTANTS
  ann = ann
  bob = bob
  web = web
  Identities = {ann, bob}
  Keys = {}
  Contents = {c}
  Permitted <- OneWay
  MaxMsgs = 2
  MaxSec = 0
  MaxBatch = 2
  MaxEvents = 2
  Faults = {}
INVARIANT RecallBeforeHandover
CHECK_DEADLOCK FALSE
