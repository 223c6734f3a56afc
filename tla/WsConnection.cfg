SPECIFICATION FairSpec
CONSTANTS
  Emitter = {e1, e2}
  Main = Main
  Nobody = Nobody
  MaxConn = 3
  MaxFail = 1
  Denial = TRUE
INVARIANTS
  TypeOK
  SingleAttempt
  ConnectionIsRead
PROPERTIES
  DeniedIsFinal
  EmitEnds
CHECK_DEADLOCK FALSE
