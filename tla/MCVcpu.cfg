SPECIFICATION MCSpec
CONSTANTS
  Vcpus = {0, 1}
  Policies <- MCPolicies
  ExitStormLimit = 3
  MaxSteps = 2
  NoVcpu = NoVcpu
  NoExit = NoExit
  VcpuIds = {a, b, c}
  NumClasses = 2
  NoneRunnable = NoneRunnable
INVARIANTS
  StormIsKilled
  FailClosed
  BlockedIsQueuedNowhere
PROPERTIES
  StoppedStays
  RoundRobin
  NoStarvationAtTop
CHECK_DEADLOCK FALSE
