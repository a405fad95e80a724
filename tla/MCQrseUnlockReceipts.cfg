SPECIFICATION Spec
CONSTANTS
  Requests <- MCRequests
  Verifiers <- MCVerifiers
  Granted <- MCGranted
  Floor <- MCFloor
  Trust <- MCTrust
  Plans <- MCPlans
  MaxReceipts = 4
  NoRequest = NoRequest
PROPERTIES
  FailureIsRecorded
CHECK_DEADLOCK FALSE
