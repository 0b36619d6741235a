CONSTANTS
  Keyring <- MCKeyring
  Documents <- MCDocuments
  MaxTime = 5
  ApprovalInputs <- MCApprovals
  PinInputs <- MCPins
  PinRecords <- MCPinRecords
  maxPublicSchemaBytes = 65536
  ManifestInputs <- MCManifestInputs
  CatalogTenants = {"local", " "}
  CatalogOptions <- MCCatalogOptions
  Payloads <- MCPayloads
  KeyIds = {"id1", "id2"}
  ReadFaults = FALSE
  MaxRuns = 5
SPECIFICATION ControlSpec
CHECK_DEADLOCK FALSE
INVARIANTS
  CachedDocumentsAuthentic
  DeclaredContractsResolve
  OneVersionPerLink
  OffersAreHonoured
  SignedPairVerifies
  OneAuthority
PROPERTIES
  CachedContentNeverChanges
  OnlyPinsMoveLinks
