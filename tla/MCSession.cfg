SPECIFICATION Spec
CONSTANTS
  app = app
  reader = reader
  u1 = u1
  u2 = u2
  polling = polling
  none = none
  Apps <- MCApps
  AppClosers <- NoClosers
  Upgrades <- MCTwoUpgrades
  Submitters <- MCGoroutines
  Closers <- MCGoroutines
  Packets <- MCPackets
  Reader = reader
  Polling = polling
  None = none
  InKinds = {"message", "ping", "close"}
  MaxIn = 2
  MaxOut = 2
  MaxPost = 2
  EmitterSize = 1
  BufSize = 1
INVARIANTS
  OutboundFIFO
  OutboundConserved
  InboundConserved
  TypeOK
  UpgradeCost
  PausedUnderBarrier
  BarrierExclusive
  FlushedBeforeClosed
CONSTRAINT Workload
SYMMETRY UpgradeSymmetry
CHECK_DEADLOCK FALSE
