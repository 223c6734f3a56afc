SPECIFICATION Spec
CONSTANTS
  Half = 5
  CalleeTimeout = 5
  Delay = 2
INVARIANTS
  TypeOK
  NoSpuriousTimeout
  NoSpuriousCancel
  OrphanTimeBound
CHECK_DEADLOCK FALSE
