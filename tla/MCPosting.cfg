SPECIFICATION Spec
CONSTANTS
  Messages <- MCMessages
  Payloads <- MCPayloads
  BufSize = 10
  DecSize = 8
INVARIANTS
  PayloadInv
  IntactUntilShort
  ShortOnlyAtLimits
  TextSurvives
CHECK_DEADLOCK FALSE
