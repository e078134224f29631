CONSTANT
  LockSwitch = TRUE
SPECIFICATION FairSpec
INVARIANTS
  TypeOK
  PagesUseLiveObjects
  WebServerKept
  WrapperKept
PROPERTIES
  BleEscalates
  WebServed
