CONSTANTS
  Peers = {1}
  Trusted <- MCTrusted
  Signers <- MCSigners
  ListTTL = 2
  CapTTLs <- MCCapTTLs
  MaxTime = 4
  MaxChanges = 3
  MaxCaps = 1
  MaxLists = 2
  Configs <- Unnamed
  Comments = {"", "id"}
  MaxFiles = 2
SPECIFICATION MembershipSpec
INVARIANTS
  ActiveSignerIsTrusted
