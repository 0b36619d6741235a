CONSTANTS
  r1 = r1
  r2 = r2
  Requests = {r1}
  Sessions <- ReplaySessions
  Envelopes <- ValidityEnvelopes
  Wirings <- ValidityWirings
  Documents <- ValidityDocuments
  Keyring <- MCKeyring
  ApprovalInputs <- MCApprovals
  PinInputs <- MCPins
  PinRecords <- NoInputs
  FacadeCodes <- OneCode
  ClockSkewMS = 2
  MaxInt = 7
  MaxTime = 7
  MaxRestarts = 0
SPECIFICATION Spec
CHECK_DEADLOCK FALSE
INVARIANTS
  CallsWereApproved
  CallsWereFresh
