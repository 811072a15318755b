SPECIFICATION Spec
CONSTANTS
  ValSize = 16
  CountMod = 4
  MaxSizes = {9, 12, 32}
  Requests <- MCRequests
  Data <- MCData
  Units = {0, 17, 300}
  Codes = {0, 258, 65535}
  Damages = {1, 2, 128, 130, 255}
INVARIANTS
  TypeOK
  UnderstoodOrNotAtAll
  WholeReplyIsTaken
  DamagedIsRefused
  CutMixesOnlyOwn
CHECK_DEADLOCK FALSE
