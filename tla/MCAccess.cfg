CONSTANTS
  Consumers = {"c1", "c2"}
  Resources <- MCResources
  Nonces = {"n1", "n2"}
  Trusted <- MCTrusted
  Issuers <- MCIssuers
  Lifetimes = {0, 2}
  Retentions = {0, 2, 3}
  MaxTime = 3
  MaxAsks = 2
  MaxCaps = 2
  MaxTombstones = 1
SPECIFICATION AccessSpec
CHECK_DEADLOCK FALSE
INVARIANTS
  AccessTypeOK
  RevokedStaysRevoked
  SplicesWereAskedFor
