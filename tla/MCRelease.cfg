CONSTANTS
  CommitLengths = {2, 3}
  Runs = {r1, r2}
  Dirs = {"d1", "d2"}
  Evidence <- MCEvidence
  RunInputs <- MCRunInputs
  PilotInputs <- MCPilotInputs
  Builds <- MCBuilds
SPECIFICATION StoreSpec
CHECK_DEADLOCK FALSE
INVARIANTS
  EvidenceStands
  RetainedEvidenceIsSafe
  ProductionImpliesPilot
  AcceptedArtifactsAccountedFor
