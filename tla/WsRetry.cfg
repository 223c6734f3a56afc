SPECIFICATION FairSpec
CONSTANTS
  Emitter = {e1, e2}
  Main = Main
  Nobody = Nobody
  MaxConn = 2
  MaxFail = 2
  Denial = FALSE
PROPERTY
  FailureIsRetried
CHECK_DEADLOCK FALSE
