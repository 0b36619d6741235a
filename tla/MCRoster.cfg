CONSTANTS
  Identity <- MCIdentity
  Drafts <- MCDrafts
  Relays = {"ra", "rb"}
  Trusted <- MCTrusted
  Signers <- MCSigners
  TombstoneInputs <- MCTombstones
  TTLs <- MCTTLs
  Rank <- MCRank
  MaxInt = 3
  MaxTime = 2
  MaxClaims = 2
  MaxEpoch = 2
SPECIFICATION RosterSpec
CHECK_DEADLOCK FALSE
INVARIANTS
  FreshestClaimsWin
  VerifiedClaimsAssemble
  EntriesAreAttested
  RelaysAgree
  RostersLiveAsAsked
