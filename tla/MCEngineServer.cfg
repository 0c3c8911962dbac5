SPECIFICATION FairSpec
CONSTANTS
  r1 = r1
  r2 = r2
  r3 = r3
  Requests <- MCRequests
  Polls <- MCPolls
  ChanSize = 1
INVARIANTS
  ServerInv
PROPERTIES
  SessionOpens
  RequestReturns
CHECK_DEADLOCK FALSE
