SPECIFICATION Spec
CONSTANTS
  Backends <- MCBackends
  Policies <- MCPolicies
  MaxSelect = 3
  Nothing = Nothing
INVARIANTS
  StreamIsVerified
PROPERTY
  VerifiedBackendLoads
