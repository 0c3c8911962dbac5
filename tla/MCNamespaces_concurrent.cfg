SPECIFICATION FairSpec
CONSTANTS
  root = root
  chat = chat
  other = other
  reader = reader
  upgrade = upgrade
  a1 = a1
  a2 = a2
  None = None
  Root = root
  Reader = reader
  Nsps <- RootOnly
  Known <- RootOnly
  Handlers <- ReaderAndUpgrade
  Apps <- TwoApps
  DisconnectEmits <- Nobody
  MaxConnect = 1
  MaxEmit = 2
  MaxAck = 1
INVARIANT AckMatches
PROPERTY EmitReturns
PROPERTY DetachedWhenLost
CHECK_DEADLOCK FALSE
