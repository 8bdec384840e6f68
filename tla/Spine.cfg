SPECIFICATION FairSpec
CONSTANTS
  N = 2
  Lanes = 1
  MaxActions = 2
  Programs = {"write", "twin", "read", "abort"}
  Role <- MCRole
  Count <- MCCount
  Deps <- MCDeps
  Kind <- MCKind
  Handle <- MCHandle
  Origin <- MCHandle
  MaxUid = 3
  MaxLease = 1
  Environments <- MCEnvironments
INVARIANTS
  TypeOK
  Accounted
  BoundTargetStays
  AbortedNeverPublished
  AbortWonTargetFailed
PROPERTIES
  StopHolds
  DecisionsStand
  Progress
