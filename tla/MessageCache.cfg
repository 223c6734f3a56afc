SPECIFICATION Spec
CONSTANTS
  s1 = s1
  s2 = s2
  s3 = s3
  parent = parent
  uuid = uuid
  Sender <- Messages
  Key <- Keys
  KeyOf <- MCKeyOf
  Session <- Sessions
  Chunks = 2
  Removable <- FreshKeys
INVARIANTS
  TypeOK
  MessagesAreWhole
  DoneIsProcessed
CHECK_DEADLOCK FALSE
