SPECIFICATION FairSpec
CONSTANTS
  app = app
  pinger = pinger
  reader = reader
  App = app
  Pinger = pinger
  Reader = reader
  Submitters <- MCSubmitters
  Closers <- MCClosers
  Packets <- MCPackets
  EmitterSize = 1
  MaxMessages = 2
  MaxEmit = 1
  MaxPings = 1
INVARIANTS
  ClientInv
  OnlyEarlyMissed
PROPERTIES
  FlushedOnClose
  LoopsEnd
CHECK_DEADLOCK FALSE
