SPECIFICATION Spec
CONSTANTS
  Backends <- MCBackends
  Policies <- MCPolicies
  MaxSelect = 3
  Nothing = Nothing
INVARIANT
  StreamIsPartOfImage
