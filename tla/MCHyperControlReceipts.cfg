SPECIFICATION Spec
CONSTANTS
  VmIds = {v1}
  Capsules <- MCSilentCapsules
  SnapNames = {"a"}
  MaxReceipts = 6
  NoCapsule = NoCapsule
  NoCommand = NoCommand
  HypervisorVersion = 52
  PolicyDoc <- MCPolicyDoc
  KmsPolicy <- MCKmsPolicy
  ReservedFloorMb = 1500
PROPERTIES
  EveryMethodAppendsReceipt
CHECK_DEADLOCK FALSE
