CONSTANTS
  r1 = r1
  r2 = r2
  Requests = {r1}
  Sessions <- GateSessions
  Envelopes <- GateEnvelopes
  Wirings <- GateWirings
  Documents <- GateDocuments
  Keyring <- MCKeyring
  ApprovalInputs <- GateApprovals
  PinInputs <- GatePins
  PinRecords <- NoInputs
  FacadeCodes <- OneCode
  ClockSkewMS = 0
  MaxInt = 15
  MaxTime = 1
  MaxRestarts = 0
SPECIFICATION Spec
CHECK_DEADLOCK FALSE
INVARIANTS
  MutatingCallsAreGuarded
  AuditTrailTellsTheTruth
