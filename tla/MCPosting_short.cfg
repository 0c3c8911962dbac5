SPECIFICATION Spec
CONSTANTS
  Messages <- MCMessages
  Payloads <- MCPayloads
  BufSize = 10
  DecSize = 8
INVARIANT ReadsWhatWasWritten
CHECK_DEADLOCK FALSE
