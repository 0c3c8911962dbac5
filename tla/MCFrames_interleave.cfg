SPECIFICATION Spec
CONSTANTS
  server = server
  client = client
  c1 = c1
  c2 = c2
  Parsers = {"default"}
  Peers <- Both
  Senders <- TwoSenders
  Home <- SenderHome
  ArgLists <- MixedArgs
  ParamLists <- NoParams
  Replies <- NoReply
  MaxEvents = 2
  MaxLoss = 0
INVARIANTS
  TransportedSequentially
CHECK_DEADLOCK FALSE
