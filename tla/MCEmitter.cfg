SPECIFICATION FairEmitterSpec
CONSTANTS
  s1 = s1
  s2 = s2
  c1 = c1
  c2 = c2
  p1 = p1
  p2 = p2
  p3 = p3
  p4 = p4
  Submitters <- MCSubmitters
  Closers <- MCClosers
  Packets <- MCPackets
  EmitterSize = 1
INVARIANTS
  EmitterTypeOK
  Conservation
PROPERTIES
  EmitReturns
  CloseReturns
  PromiseSpec
CHECK_DEADLOCK FALSE
