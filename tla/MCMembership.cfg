CONSTANTS
  Peers = {1}
  Trusted <- MCTrusted
  Signers <- MCSigners
  ListTTL = 2
  CapTTLs <- MCCapTTLs
  MaxTime = 3
  MaxChanges = 4
  MaxCaps = 1
  MaxLists = 2
  Configs <- MCConfigs
  Comments = {"", "id"}
  MaxFiles = 3
SPECIFICATION MembershipSpec
CHECK_DEADLOCK FALSE
INVARIANTS
  FenceTypeOK
  AdmissionLagIsBounded
  AdmittedWereIssued
  RetainedKeysStayTrusted
PROPERTIES
  FenceNeverReadmits
