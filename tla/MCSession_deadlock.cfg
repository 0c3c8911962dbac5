SPECIFICATION FairSpec
CONSTANTS
  app = app
  reader = reader
  u1 = u1
  u2 = u2
  polling = polling
  none = none
  Apps <- MCApps
  AppClosers <- NoClosers
  Upgrades <- MCOneUpgrade
  Submitters <- MCGoroutines
  Closers <- MCGoroutines
  Packets <- MCPackets
  Reader = reader
  Polling = polling
  None = none
  InKinds = {"close"}
  MaxIn = 1
  MaxOut = 1
  MaxPost = 1
  EmitterSize = 1
  BufSize = 1
PROPERTIES
  SocketCloseReturns
CHECK_DEADLOCK FALSE
