CONSTANT
  LockSwitch = FALSE
SPECIFICATION FairSpec
PROPERTY
  BeaconLossRestarts
