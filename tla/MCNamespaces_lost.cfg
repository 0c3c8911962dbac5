SPECIFICATION Spec
CONSTANTS
  root = root
  chat = chat
  other = other
  reader = reader
  upgrade = upgrade
  a1 = a1
  a2 = a2
  None = None
  Root = root
  Reader = reader
  Nsps <- RootOnly
  Known <- RootOnly
  Handlers <- ReaderOnly
  Apps <- NoApps
  DisconnectEmits <- Nobody
  MaxConnect = 1
  MaxEmit = 0
  MaxAck = 1
INVARIANT LostIsNotified
CHECK_DEADLOCK FALSE
