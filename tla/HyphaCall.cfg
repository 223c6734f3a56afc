SPECIFICATION FairSpec
CONSTANTS
  a = a
  b = b
  c1 = c1
  c2 = c2
  NoCall = NoCall
  Peer <- TwoPeers
  Call <- NestedCalls
  Parent <- MCParent
  Caller <- MCCaller
  Callee <- MCCallee
  Interface <- MCInterface
  Mortal <- OnlyCaller
  Hanging <- OnlyCallee
CHECK_DEADLOCK FALSE
INVARIANTS
  TypeOK
  PendingIsTimed
  SessionDuringCall
PROPERTIES
  CallsKeepPromise
  Settles
  HeartbeatEnds
  OrphanStops
