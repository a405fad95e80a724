SPECIFICATION Spec
CONSTANTS
  Bodies <- MCBodies
  MaxLen = 3
  MaxDamage = 2
INVARIANTS
  UndamagedVerifies
  HeadPinsHistory
PROPERTIES
  AppendKeepsVerdict
CHECK_DEADLOCK FALSE
