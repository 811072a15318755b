SPECIFICATION DemoFairSpec
CONSTANTS
  Cap = 2
  NumPrio = 3
  ArgMod = 16
  IdMod = 16
  Bits <- MCBits
  Contents <- MCContents
  InMasks <- MCInMasks
  Concurrent = TRUE
  MaxAdds = 2
INVARIANTS
  DemoTypeOK
  CleanPassDrivesOutputs
  FreedAfterThreads
PROPERTIES
  CallbackTouchesItsOutputsOnly
  DemoEnds
CHECK_DEADLOCK FALSE
