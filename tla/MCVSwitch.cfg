SPECIFICATION Spec
CONSTANTS
  Vms = {v1, v2}
  Documents <- MCDocuments
  Flows <- MCFlows
  Limits = {0, 1, 3}
  WindowSize = 4
  MaxAsked = 3
  MaxAdmitted = 5
  Modes = {"none", "isolated", "nat"}
  Wildcard = Wildcard
  NoSandbox = NoSandbox
  NoAnswer = NoAnswer
SYMMETRY MCSymmetry
INVARIANTS
  WindowKept
  CountersAddUp
PROPERTIES
  RefusedOnlyWhenSpent
  AdmittedIsPermitted
CHECK_DEADLOCK FALSE
