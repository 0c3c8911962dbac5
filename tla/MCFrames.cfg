SPECIFICATION FairSpec
CONSTANTS
  server = server
  client = client
  c1 = c1
  c2 = c2
  Parsers = {"default", "msgpack"}
  Peers <- Both
  Senders <- OneSender
  Home <- SenderHome
  ArgLists <- AllArgs
  ParamLists <- AllParams
  Replies <- AllReplies
  MaxEvents = 2
  MaxLoss = 1
INVARIANTS
  RoomForAttachment
  Intact
  InOrder
  MatchedCall
PROPERTIES
  EventAcked
CHECK_DEADLOCK FALSE
