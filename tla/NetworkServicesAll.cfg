CONSTANTS
  CheckEvery = 2
  Timeout = 2
  Grace = 1
SPECIFICATION FairSpec
INVARIANTS
  TypeOK
  WatchdogPunctual
PROPERTIES
  WatchdogJustified
  ApiServed
  HarRecovers
