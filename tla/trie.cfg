SPECIFICATION FairSpec
CONSTANTS
  Patterns <- MCPatterns
  MaxChild = 2
  MaxDepth = 4
  MaxInserts = 3
INVARIANTS
  FoundIffInserted
  StackHoldsWalk
  WalksShowAll
PROPERTIES
  WalksEnd
CHECK_DEADLOCK FALSE
