SPECIFICATION Spec
CONSTANTS
  Transport = "tcp"
  TransMod = 3
  Values <- MCValues
  Errs <- MCErrs
  WorkInfos <- MCOneWrite
  NoiseCodes <- MCNoise
  Split = TRUE
  MaxRules = 1
  MaxSends = 4
INVARIANTS
  TypeOK
  OneExchange
  ReplyIsForRequest
  PollersOnlyPoll
PROPERTY
  FailureKeepsRecord
