SPECIFICATION Spec
CONSTANTS
  e = e
  f = f
  g = g
  h = h
  i1 = i1
  i2 = i2
  open = open
  open2 = open2
  own = own
  shared1 = shared1
  shared2 = shared2
  near = near
  far = far
  NoService = NoService
  NoAnnotation = NoAnnotation
  Function <- MCFunction
  ServiceId <- MCServiceId
  Service <- MCService
  Id <- MCId
  Functions <- MCFunctions
  Visibility <- MCVisibility
  Peer <- MCPeer
  Foreign <- MCForeign
  MaxNotices = 2
INVARIANTS
  TypeOK
  ChecksAgree
  ManagerUpToDate
