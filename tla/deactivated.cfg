SPECIFICATION StoresSpec
CONSTANTS
  Identities = {a, b}
  Keys = {k1, k2, k3}
  NeedsKey = {a, b}
  People = {"p1", "p2"}
  Posts = {"m1", "m2"}
  Author <- StoresAuthor
  MaxMilli = 3
  MaxFrames = 2
  Plans <- StoresPlans
  WebFaults = {"cut", "refuse", "slow", "kill"}
  Envelopes = {"c", "j", "r", "t"}
  Kind <- StoresKind
  Iat <- StoresIat
  Window = 1
  Capacity = 2
  Cost = 2
  Places = {"home", "away"}
  MaxClock = 3
  AdmissionFaults = {"setback", "restart", "rule", "damage"}
  Blobs = {"k"}
  Grants = {"g1", "g2"}
  KeyOf <- StoresKeyOf
  Events = {"e"}
  Attached <- StoresAttached
  Uploads = {"u1", "u2"}
  Chunks = 2
  FaultPlans <- StoresFaultPlans
SYMMETRY Symmetry
CHECK_DEADLOCK FALSE
INVARIANT DeactivatedIsWithdrawn
