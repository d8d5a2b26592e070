SPECIFICATION LinksSpec
CONSTANTS
  web = web
  ann = ann
  bob = bob
  Identities = {web, ann, bob}
  Sockets = {w1, w2}
  Entitled <- WebForAnn
  Keyed <- Agents
  Rebinding = FALSE
  r1 = r1
  r2 = r2
  agent = agent
  k = k
  Ids = {r1, r2}
  Requests <- All
  MaxScan <- Limits
  MaxSlot = 1
  Faults = {"timeout", "disconnect", "crash", "refuse"}
  Generations = {g1, g2}
  Recipients = {a, b}
  MaxOutages = 2
  LinkFaults = {"create", "close", "vanish", "refuse", "timeout", "die", "stop"}
INVARIANTS LinksTypeOK MapsAgree NoDeadRoutes ProxyBacked AbandonedByKey OneSocket ToldOnce
PROPERTIES ImplementsRegister GracePeriod HalfOpenFreed CancelIsFinal ImplementsPromise DueReachesHub OutageIsReported
CHECK_DEADLOCK FALSE
