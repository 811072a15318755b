SPECIFICATION FairSpec
CONSTANTS
  Transport = "tcp"
  TransMod = 4
  Values <- MCValues
  Errs <- MCErrs
  WorkInfos <- MCWorkInfos
  NoiseCodes <- MCNoise
  Split = FALSE
  MaxRules = 1
  MaxSends = 3
PROPERTIES
  MasterSpec
  LockComesBackOnceSettled
