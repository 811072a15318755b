SPECIFICATION Spec
CONSTANTS
  Transport = "rtu"
  TransMod = 1
  Values <- MCValues
  Errs <- MCErrs
  WorkInfos <- MCOneWrite
  NoiseCodes <- MCNoise
  Split = FALSE
  MaxRules = 1
  MaxSends = 3
INVARIANTS
  OwnReplyUnlessLate
PROPERTIES
  OnlyDamageChangesPolls
