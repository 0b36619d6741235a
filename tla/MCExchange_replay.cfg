CONSTANTS
  r1 = r1
  r2 = r2
  Requests = {r1, r2}
  Sessions <- ReplaySessions
  Envelopes <- ReplayEnvelopes
  Wirings <- ReplayWirings
  Documents <- ReplayDocuments
  Keyring <- MCKeyring
  ApprovalInputs <- NoInputs
  PinInputs <- NoInputs
  PinRecords <- NoInputs
  FacadeCodes <- OneCode
  ClockSkewMS = 0
  MaxInt = 15
  MaxTime = 1
  MaxRestarts = 1
SPECIFICATION Spec
CHECK_DEADLOCK FALSE
INVARIANTS
  TypeOK
  AtMostOnce
  RefusalsBurnNoKey
PROPERTIES
  EveryCallEnds
  OnceRefinement
