SPECIFICATION Spec
CONSTANTS
  Transport = "tcp"
  TransMod = 4
  Values <- MCValues
  Errs <- MCErrs
  WorkInfos <- MCOneWrite
  NoiseCodes <- MCNoise
  Split = FALSE
  MaxRules = 0
  MaxSends = 2
INVARIANT
  PollersCanSend
