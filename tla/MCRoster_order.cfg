CONSTANTS
  Identity <- MCIdentity
  Drafts <- MCDrafts
  Relays = {"ra", "rb"}
  Trusted <- MCTrusted
  Signers <- OneSigner
  TombstoneInputs <- OneTombstone
  TTLs <- OneTTL
  Rank <- MCRank
  MaxInt = 3
  MaxTime = 2
  MaxClaims = 2
  MaxEpoch = 0
SPECIFICATION RosterSpec
CHECK_DEADLOCK FALSE
INVARIANTS
  AssemblyIgnoresOrder
