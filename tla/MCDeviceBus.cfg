SPECIFICATION Spec
CONSTANTS
  RegCount = 1
  ByteSize = 2
  BlockLen = 2
  CounterSize = 2
  CountMax = 2
  MaxAddr = 3
  MaxPort = 2
  Widths = {1, 2}
  Values = {0, 1, 2}
  Registrations <- MCRegistrations
  MaxDevices = 2
  MaxBytes = 5
  NoRange = NoRange
  NoLine = NoLine
INVARIANTS
  RoutedToOwner
  ConsoleLosesNothing
  StreamFollowsSeed
PROPERTIES
  WritesStayInRange
