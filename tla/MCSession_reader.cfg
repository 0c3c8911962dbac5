SPECIFICATION Spec
CONSTANTS
  app = app
  reader = reader
  u1 = u1
  u2 = u2
  polling = polling
  none = none
  Apps <- MCApps
  AppClosers <- NoClosers
  Upgrades <- MCOneUpgrade
  Submitters <- MCGoroutines
  Closers <- MCGoroutines
  Packets <- MCPackets
  Reader = reader
  Polling = polling
  None = none
  InKinds = {"message"}
  MaxIn = 0
  MaxOut = 0
  MaxPost = 1
  EmitterSize = 1
  BufSize = 1
INVARIANTS
  UpgradeKeepsReader
CHECK_DEADLOCK FALSE
