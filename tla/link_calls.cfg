SPECIFICATION FairSpec
CONSTANTS
  NumFds = 4
  Others = {1, 2}
  MaxTries = 3
INVARIANTS
  OneSocket
  HeldIsDesc
PROPERTY
  CallReturnsOnceSettled
