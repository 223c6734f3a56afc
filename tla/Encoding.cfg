SPECIFICATION Spec
CHECK_DEADLOCK FALSE
CONSTANTS
  f = f
  g = g
  h = h
  NoFunction = NoFunction
  MaxEncodings = 3
  MaxLevels = 2
INVARIANTS
  TypeOK
  ReferencesReach
