SPECIFICATION FairSpec
CONSTANTS
  app = app
  reader = reader
  u1 = u1
  u2 = u2
  polling = polling
  none = none
  Apps <- MCApps
  AppClosers <- MCApps
  Upgrades <- MCOneUpgrade
  Submitters <- MCGoroutines
  Closers <- MCGoroutines
  Packets <- MCPackets
  Reader = reader
  Polling = polling
  None = none
  InKinds = {"message"}
  MaxIn = 0
  MaxOut = 1
  MaxPost = 1
  EmitterSize = 1
  BufSize = 1
PROPERTIES
  UpgradeEnds
  SocketCloseReturns
  SessionReaped
CHECK_DEADLOCK FALSE
