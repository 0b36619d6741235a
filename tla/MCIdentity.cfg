CONSTANTS
  Texts <- MCTexts
  TrimLeft <- MCTrimLeft
  TrimRight <- MCTrimRight
  BeforeMark <- MCBeforeMark
  Unescape <- MCUnescape
  URLRefuses <- MCURLRefuses
  DefaultCATTL = 30
  DefaultLeafTTL = 10
  Callers = {c1, c2}
  Requests <- MCRequests
  Handed <- MCHanded
  TrustDomain = "builders-net"
  Hour = 2
  SpireDefaultTTL = 2
  VaultDefaultTTL = 8
  VaultKey = 3
  MaxCalls = 4
  CSRInputs <- MCCSRInputs
  SignInputs <- MCSignInputs
  Authorities <- MCAuthorities
  ServerPairs <- MCServerPairs
  Pools <- MCPools
  ServerName = "srv"
  Windows = {0, 2}
  MaxLeaves = 1
  MaxCSRs = 2
  MaxClock = 2
SPECIFICATION IdentitySpec
CHECK_DEADLOCK FALSE
INVARIANTS
  RootsVouchForLeaves
  LifetimesAreAsAsked
  AdmittedIdentityWasMeant
  AdmissionsObeyTheirList
  ChecksPredictService
PROPERTIES
  SettledAuthorityStands
