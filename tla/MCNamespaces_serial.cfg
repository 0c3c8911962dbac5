SPECIFICATION Spec
CONSTANTS
  root = root
  chat = chat
  other = other
  reader = reader
  upgrade = upgrade
  a1 = a1
  a2 = a2
  None = None
  Root = root
  Reader = reader
  Nsps <- AllNsps
  Known <- RootAndChat
  Handlers <- ReaderOnly
  Apps <- TwoApps
  DisconnectEmits <- ChatOnly
  MaxConnect = 2
  MaxEmit = 2
  MaxAck = 2
INVARIANT NamespacesTypeOK
INVARIANT DetachedAfterClose
INVARIANT AckOnce
INVARIANT DisconnectOnce
CONSTRAINT Workload
CHECK_DEADLOCK FALSE
