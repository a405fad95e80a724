SPECIFICATION Spec
CONSTANTS
  VmIds = {v1, v2}
  Capsules <- MCMixedCapsules
  SnapNames = {"a"}
  MaxReceipts = 9
  NoCapsule = NoCapsule
  NoCommand = NoCommand
  HypervisorVersion = 52
  PolicyDoc <- MCPolicyDoc
  KmsPolicy <- MCKmsPolicy
  ReservedFloorMb = 1500
INVARIANTS
  TypeOK
  LaunchedIsAdmissible
  ResourcesFollowStage
  ChainMatchesStages
  NoVmLost
  SnapshotTokensAreAudited
PROPERTIES
  TerminalUntilRedefined
  AuditSpec
CHECK_DEADLOCK FALSE
