SPECIFICATION Spec
CONSTANTS
  root = root
  chat = chat
  other = other
  reader = reader
  upgrade = upgrade
  a1 = a1
  a2 = a2
  None = None
  Root = root
  Reader = reader
  Nsps <- RootAndChat
  Known <- RootAndChat
  Handlers <- ReaderOnly
  Apps <- OneApp
  DisconnectEmits <- Nobody
  MaxConnect = 2
  MaxEmit = 2
  MaxAck = 1
INVARIANT AckMatches
CHECK_DEADLOCK FALSE
