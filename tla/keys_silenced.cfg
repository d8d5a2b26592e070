SPECIFICATION KeysSpec
CONSTANTS
  Identities = {a, b}
  Keys = {k1, k2, k3}
  NeedsKey = {a, b}
PROPERTY ProposingKeepsSigning
CHECK_DEADLOCK FALSE
