SPECIFICATION Spec
CONSTANTS
  ann = ann
  bob = bob
  web = web
  Identities = {ann, bob}
  Keys = {k}
  Contents = {c}
  Permitted <- OneWay
  MaxMsgs = 2
  MaxSec = 0
  MaxBatch = 2
  MaxEvents = 1
  Faults = {"accept", "send", "replay", "receive", "halfopen"}
INVARIANTS TypeOK DeliveredIsKept AuditIsTrue KeyNamesOneMessage
PROPERTIES SettledIsFinal ImplementsDelivery
CHECK_DEADLOCK FALSE
