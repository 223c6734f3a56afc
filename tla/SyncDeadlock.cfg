SPECIFICATION FairSpec
CONSTANTS
  s = s
  t = t
  r1 = r1
  x1 = x1
  y1 = y1
  g1 = g1
  r2 = r2
  x2 = x2
  y2 = y2
  NoCall = NoCall
  Server <- Servers
  Call <- TwoChains
  Parent <- ChainParent
  Callee <- ChainCallee
  From <- NoneReturned
  Workers = 2
CHECK_DEADLOCK FALSE
PROPERTIES
  CallsReturn
