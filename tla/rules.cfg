SPECIFICATION FairSpec
CONSTANTS
  Cap = 3
  NumPrio = 3
  ArgMod = 4
  IdMod = 16
  Bits <- MCBits
  Contents <- MCContents
  InMasks <- MCInMasks
  Concurrent = TRUE
  MaxAdds = 4
INVARIANTS
  TypeOK
  UsedFirst
  OneListEach
  ListsInIdOrder
  CallsFollowPrecedence
  NoOutputDrivenTwice
  PassSurvivesAdditions
PROPERTIES
  PassEndsUnlessLost
  RuleSetSpec
