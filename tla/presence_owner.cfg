SPECIFICATION PresenceSpec
CONSTANTS
  web = web
  ann = ann
  bob = bob
  Identities = {web, ann}
  Sockets = {w1, w2}
  Entitled <- WebForAnn
  Keyed <- Agents
  Rebinding = TRUE
INVARIANT OwnerIsOpen
CHECK_DEADLOCK FALSE
