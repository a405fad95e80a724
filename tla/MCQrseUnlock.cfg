SPECIFICATION Spec
CONSTANTS
  Requests <- MCRequests
  Verifiers <- MCVerifiers
  Granted <- MCGranted
  Floor <- MCFloor
  Trust <- MCTrust
  Plans <- MCPlans
  MaxReceipts = 6
  NoRequest = NoRequest
INVARIANTS
  KekMeetsPolicy
  KekIsRecorded
  KekBindsRequest
  CtlAgreesWithUnlock
  SlotsAreOnTree
  PlannedVolumesUnlock
PROPERTIES
  NoRollback
CHECK_DEADLOCK FALSE
